---- MODULE Spec2Model ----
(***************************************************************************)
(* AutoCut: the interval algebra of autocut/edit.py.                       *)
(*                                                                         *)
(*   get_silence_cuts  silencedetect events -> trimmed silence intervals   *)
(*   fill_sequence     silence intervals -> [start, end, is_quiet] list    *)
(*                                                                         *)
(* Frames are integers.  Quantities the code holds as floats (the event    *)
(* timestamps divided by the frame length, and min_length) are counted in  *)
(* units of 1/Sub frame, so that int() and the float comparisons of the    *)
(* code are computed exactly.  A Python exception ends a call; the call's  *)
(* outcome is a record [kind |-> "ok", val |-> list] or [kind |-> the      *)
(* exception's name, val |-> <<>>].                                        *)
(***************************************************************************)
EXTENDS Integers, Sequences, FiniteSets, TLC

\* ---- bounds of the model ----
Sub == 2               \* sub-frame resolution of float quantities
MaxFrame == 5          \* frames of fill_sequence inputs range over 0..MaxFrame
MaxCuts == 3           \* longest well-formed silence_cuts list given to fill_sequence
MaxAnyFrame == 2       \* frames of the unconstrained silence_cuts lists
MaxAnyCuts == 2        \* longest unconstrained silence_cuts list
MaxMinLength == 4      \* min_length of fill_sequence, in 1/Sub frames
MaxMinLengthCuts == 12 \* min_length of get_silence_cuts, in 1/Sub frames
MaxMargin == 5         \* margin ranges over 0..MaxMargin
MaxNegTime == 1        \* earliest event timestamp is -MaxNegTime (1/Sub frames)
MaxTime == 6           \* latest event timestamp (1/Sub frames)
MaxEvents == 4         \* longest silencedetect event stream

VARIABLES
    pc,            \* "call" | "returned" | "remerged"
    silence_cuts,  \* fill_sequence: argument, list of <<start, end>>
    min_length,    \* both functions: argument, in 1/Sub frames
    duration_,     \* fill_sequence: local duration_ (frames)
    cuts,          \* fill_sequence: local cuts after the first loop
    merged_cuts,   \* fill_sequence: outcome of the call
    remerged,      \* outcome of the second loop run on merged_cuts
    lines,         \* get_silence_cuts: the silencedetect events, in order
    margin,        \* get_silence_cuts: argument margin
    eff_margin,    \* get_silence_cuts: local margin after the clamp
    parsed,        \* get_silence_cuts: local silence_cuts (list of lists)
    ret_cuts       \* get_silence_cuts: outcome of the call

vars == <<pc, silence_cuts, min_length, duration_, cuts, merged_cuts, remerged,
          lines, margin, eff_margin, parsed, ret_cuts>>

cutsVars == <<lines, margin, eff_margin, parsed, ret_cuts>>

Ok(v) == [kind |-> "ok", val |-> v]
Raise(e) == [kind |-> e, val |-> <<>>]
NotCalled == [kind |-> "none", val |-> <<>>]

\* ---------------------------------------------------------------------
\* fill_sequence, first loop
\* ---------------------------------------------------------------------

\* a local variable is <<>> while no statement has assigned it, <<v>> after
Unbound == <<>>

\* sorted([a, b]) and list.sort() of a two-element list
Sort2(a, b) == IF a <= b THEN <<a, b>> ELSE <<b, a>>

\* the gap before the first cut
LeadingCut(i, start) ==
    IF start > 0 /\ i = 1
    THEN LET cut_range == Sort2(0, start)
         IN  IF cut_range[1] + cut_range[2] > 0
             THEN << Append(cut_range, FALSE) >>
             ELSE << >>
    ELSE << >>

\* the try / except IndexError / else that builds next_cut; end_2 is the
\* value the variable has before this iteration
NextCut(sc, i, end_2, dur) ==
    IF i + 1 <= Len(sc)
    THEN [err |-> "none", end_2 |-> <<sc[i + 1][2]>>,
          next_cut |-> <<sc[i][2], sc[i + 1][1]>>]
    ELSE IF end_2 = Unbound
         THEN [err |-> "UnboundLocalError", end_2 |-> end_2, next_cut |-> <<>>]
         ELSE [err |-> "none", end_2 |-> end_2, next_cut |-> <<end_2[1], dur>>]

\* the quiet status appended to a non-empty gap; min_length is in 1/Sub frames
TagNextCut(next_cut, ml) ==
    LET next_cut_duration == next_cut[2] - next_cut[1]
    IN  IF next_cut[1] + next_cut[2] > 0 /\ next_cut[1] # next_cut[2]
        THEN IF next_cut_duration * Sub <= ml
             THEN Append(next_cut, TRUE)
             ELSE Append(next_cut, FALSE)
        ELSE next_cut

\* one iteration of the first loop
ExpandStep(sc, i, acc, ml, dur) ==
    LET start == sc[i][1]
        end == sc[i][2]
        lead == acc.cuts \o LeadingCut(i, start)
        nc == NextCut(sc, i, acc.end_2, dur)
    IN  IF nc.err # "none"
        THEN [err |-> nc.err, end_2 |-> nc.end_2, cuts |-> lead]
        ELSE LET next_cut == Sort2(nc.next_cut[1], nc.next_cut[2])
             IN  [err |-> "none", end_2 |-> nc.end_2,
                  cuts |-> lead \o << <<start, end, TRUE>> >>
                                \o << TagNextCut(next_cut, ml) >>]

RECURSIVE ExpandFrom(_, _, _, _, _)
ExpandFrom(sc, i, acc, ml, dur) ==
    IF i > Len(sc) \/ acc.err # "none"
    THEN acc
    ELSE ExpandFrom(sc, i + 1, ExpandStep(sc, i, acc, ml, dur), ml, dur)

\* the whole first loop
Expand(sc, ml, dur) ==
    ExpandFrom(sc, 1, [err |-> "none", end_2 |-> Unbound, cuts |-> <<>>], ml, dur)

\* ---------------------------------------------------------------------
\* fill_sequence, second loop
\* ---------------------------------------------------------------------

\* the second loop with the status comparison lost: every element after the
\* first flushes the running segment
MergeStepNoJoin(acc, i, cut) ==
    IF Len(cut) # 3
    THEN [acc EXCEPT !.err = "ValueError"]
    ELSE IF i = 1
         THEN [acc EXCEPT !.previous_status = <<cut[3]>>,
                          !.previous_start = <<cut[1]>>,
                          !.previous_end = <<cut[2]>>]
         ELSE [acc EXCEPT
                 !.merged_cuts = Append(acc.merged_cuts,
                     <<acc.previous_start[1], acc.previous_end[1],
                       acc.previous_status[1]>>),
                 !.previous_status = <<cut[3]>>,
                 !.previous_start = <<cut[1]>>,
                 !.previous_end = <<cut[2]>>]

\* one iteration of the second loop on the element cut at index i
MergeStep(acc, i, cut) ==
    IF Len(cut) # 3
    THEN [acc EXCEPT !.err = "ValueError"]
    ELSE IF i = 1
         THEN [acc EXCEPT !.previous_status = <<cut[3]>>,
                          !.previous_start = <<cut[1]>>,
                          !.previous_end = <<cut[2]>>]
         ELSE IF acc.previous_status = <<cut[3]>>
              THEN [acc EXCEPT !.previous_end = <<cut[2]>>]
              ELSE [acc EXCEPT
                      !.merged_cuts = Append(acc.merged_cuts,
                          <<acc.previous_start[1], acc.previous_end[1],
                            acc.previous_status[1]>>),
                      !.previous_status = <<cut[3]>>,
                      !.previous_start = <<cut[1]>>,
                      !.previous_end = <<cut[2]>>]

RECURSIVE MergeFrom(_, _, _)
MergeFrom(cs, i, acc) ==
    IF i > Len(cs) \/ acc.err # "none"
    THEN acc
    ELSE MergeFrom(cs, i + 1, MergeStep(acc, i, cs[i]))

\* the whole second loop and the return
Merge(cs) ==
    LET acc == MergeFrom(cs, 1, [err |-> "none", merged_cuts |-> <<>>,
                                 previous_status |-> Unbound,
                                 previous_start |-> Unbound,
                                 previous_end |-> Unbound])
    IN  IF acc.err # "none" THEN Raise(acc.err) ELSE Ok(acc.merged_cuts)

\* ---------------------------------------------------------------------
\* inputs of fill_sequence
\* ---------------------------------------------------------------------

SeqsUpTo(S, n) == UNION {[1..k -> S] : k \in 0..n}

Pairs(n) == {<<a, b>> : a \in 0..n, b \in 0..n}

\* 0 <= start <= end each, sorted, mutually non-overlapping
WellFormed(sc) ==
    /\ \A i \in 1..Len(sc) : 0 <= sc[i][1] /\ sc[i][1] <= sc[i][2]
    /\ \A i \in 1..(Len(sc) - 1) : sc[i][2] <= sc[i + 1][1]

\* non-decreasing sequences of 2k frame numbers, read as k intervals
RECURSIVE Chains(_, _)
Chains(k, lo) ==
    IF k = 0 THEN {<<>>}
    ELSE UNION {UNION {{<<<<a, b>>>> \o rest : rest \in Chains(k - 1, b)} :
                       b \in a..MaxFrame} : a \in lo..MaxFrame}

WellFormedCuts == UNION {Chains(k, 0) : k \in 0..MaxCuts}

AnyCuts == SeqsUpTo(Pairs(MaxAnyFrame), MaxAnyCuts)

FillInit ==
    /\ pc = "call"
    /\ silence_cuts \in WellFormedCuts \cup AnyCuts
    /\ min_length \in 0..MaxMinLength
    /\ duration_ \in 0..MaxFrame
    /\ cuts = <<>>
    /\ merged_cuts = NotCalled
    /\ remerged = NotCalled
    /\ lines = <<>>
    /\ margin = 0
    /\ eff_margin = 0
    /\ parsed = <<>>
    /\ ret_cuts = NotCalled

\* a call of fill_sequence(path, silence_cuts, min_length)
FillSequence ==
    /\ pc = "call"
    /\ LET e == Expand(silence_cuts, min_length, duration_)
       IN  /\ cuts' = e.cuts
           /\ merged_cuts' = IF e.err # "none" THEN Raise(e.err) ELSE Merge(e.cuts)
    /\ pc' = "returned"
    /\ UNCHANGED <<silence_cuts, min_length, duration_, remerged>>
    /\ UNCHANGED cutsVars

\* the second loop applied once more, to the list fill_sequence returned
Remerge ==
    /\ pc = "returned"
    /\ merged_cuts.kind = "ok"
    /\ remerged' = Merge(merged_cuts.val)
    /\ pc' = "remerged"
    /\ UNCHANGED <<silence_cuts, min_length, duration_, cuts, merged_cuts>>
    /\ UNCHANGED cutsVars

\* ---------------------------------------------------------------------
\* get_silence_cuts
\* ---------------------------------------------------------------------

\* the clamp with the halving lost: margin is clamped to min_length
ClampMarginWhole(m, ml) ==
    IF m * Sub > ml THEN ml \div Sub ELSE m

\* the clamp of margin to half of min_length; min_length is ml / Sub frames,
\* so margin > min_length / 2.0 is margin * 2 * Sub > ml and
\* int(min_length / 2.0) is ml \div (2 * Sub)
ClampMargin(m, ml) ==
    IF m * 2 * Sub > ml THEN ml \div (2 * Sub) ELSE m

\* int(value / frame_length) of a timestamp of t / Sub frames: int() rounds
\* toward zero
ToFrame(t) == IF t >= 0 THEN t \div Sub ELSE -((-t) \div Sub)

Max(a, b) == IF a >= b THEN a ELSE b

\* one iteration of the loop over the detector's lines
ParseStep(acc, line, m) ==
    IF line.kind = "start"
    THEN [acc EXCEPT !.silence_cuts =
              Append(acc.silence_cuts, << Max(0, ToFrame(line.t) + m) >>)]
    ELSE IF Len(acc.silence_cuts) = 0
         THEN [acc EXCEPT !.err = "IndexError"]
         ELSE [acc EXCEPT !.silence_cuts[Len(acc.silence_cuts)] =
                   Append(acc.silence_cuts[Len(acc.silence_cuts)],
                          ToFrame(line.t) - m)]

RECURSIVE ParseFrom(_, _, _, _)
ParseFrom(ls, i, acc, m) ==
    IF i > Len(ls) \/ acc.err # "none"
    THEN acc
    ELSE ParseFrom(ls, i + 1, ParseStep(acc, ls[i], m), m)

\* the whole loop over the detector's lines
Parse(ls, m) == ParseFrom(ls, 1, [err |-> "none", silence_cuts |-> <<>>], m)

\* one iteration of the loop that joins touching cuts; the elements of cuts
\* are tuples, which do not support item assignment
JoinStep(acc, cut) ==
    LET c_start == cut[1]
        c_end == cut[Len(cut)]
    IN  IF acc.previous = c_start
        THEN IF Len(acc.cuts) = 0
             THEN [acc EXCEPT !.err = "IndexError"]
             ELSE [acc EXCEPT !.err = "TypeError"]
        ELSE [acc EXCEPT !.cuts = Append(acc.cuts, cut), !.previous = c_end]

RECURSIVE JoinFrom(_, _, _)
JoinFrom(scs, i, acc) ==
    IF i > Len(scs) \/ acc.err # "none"
    THEN acc
    ELSE JoinFrom(scs, i + 1, JoinStep(acc, scs[i]))

\* the whole joining loop and the return
Join(scs) ==
    LET acc == JoinFrom(scs, 1, [err |-> "none", cuts |-> <<>>, previous |-> -1])
    IN  IF acc.err # "none" THEN Raise(acc.err) ELSE Ok(acc.cuts)

\* chronological timestamps, silence_start and silence_end alternating
Times == (0 - MaxNegTime)..MaxTime

RECURSIVE Streams(_, _, _)
Streams(n, lo, kind) ==
    IF n = 0 THEN {<<>>}
    ELSE {<<>>} \cup
         UNION {{<<[kind |-> kind, t |-> t]>> \o rest :
                    rest \in Streams(n - 1, t, IF kind = "start" THEN "end" ELSE "start")} :
                t \in lo..MaxTime}

CutsInit ==
    /\ pc = "call"
    /\ lines \in Streams(MaxEvents, 0 - MaxNegTime, "start")
    /\ min_length \in 0..MaxMinLengthCuts
    /\ margin \in 0..MaxMargin
    /\ eff_margin = margin
    /\ parsed = <<>>
    /\ ret_cuts = NotCalled
    /\ silence_cuts = <<>>
    /\ duration_ = 0
    /\ cuts = <<>>
    /\ merged_cuts = NotCalled
    /\ remerged = NotCalled

\* a call of get_silence_cuts(path, min_length, threshold, margin)
GetSilenceCuts ==
    /\ pc = "call"
    /\ LET m == ClampMargin(margin, min_length)
           p == Parse(lines, m)
       IN  /\ eff_margin' = m
           /\ parsed' = p.silence_cuts
           /\ ret_cuts' = IF p.err # "none" THEN Raise(p.err) ELSE Join(p.silence_cuts)
    /\ pc' = "returned"
    /\ UNCHANGED <<lines, margin, min_length>>
    /\ UNCHANGED <<silence_cuts, duration_, cuts, merged_cuts, remerged>>

NextCuts == GetSilenceCuts

SpecCuts == CutsInit /\ [][NextCuts]_vars

\* ---------------------------------------------------------------------
\* specifications
\* ---------------------------------------------------------------------

Init == FillInit

Next == FillSequence \/ Remerge

Spec == Init /\ [][Next]_vars

\* ---------------------------------------------------------------------
\* properties of fill_sequence (checked under Spec)
\* ---------------------------------------------------------------------

Last(q) == q[Len(q)]

Min(a, b) == IF a <= b THEN a ELSE b

RECURSIVE SumOfLengths(_)
SumOfLengths(segs) ==
    IF Len(segs) = 0 THEN 0
    ELSE (segs[1][2] - segs[1][1]) + SumOfLengths(Tail(segs))

Contiguous(segs) == \A i \in 1..(Len(segs) - 1) : segs[i][2] = segs[i + 1][1]

\* the argument list is well formed and total_duration reaches its last end
ValidCall ==
    /\ WellFormed(silence_cuts)
    /\ Len(silence_cuts) > 0 => duration_ >= Last(silence_cuts)[2]

\* C1 Coverage: on a valid call fill_sequence returns a contiguous segment
\* list that starts at frame 0 and ends at total_duration, so that the
\* segment lengths sum to total_duration (the running segment is flushed at
\* the end of the input).
Coverage ==
    (pc # "call" /\ ValidCall) =>
        /\ merged_cuts.kind = "ok"
        /\ Contiguous(merged_cuts.val)
        /\ SumOfLengths(merged_cuts.val) = duration_
        /\ Len(merged_cuts.val) > 0 =>
               /\ merged_cuts.val[1][1] = 0
               /\ Last(merged_cuts.val)[2] = duration_

\* C2 Alternation: in the list fill_sequence returns, whatever the argument
\* list, min_length and total_duration, no two adjacent segments have the
\* same is_quiet.
Alternation ==
    (pc # "call" /\ merged_cuts.kind = "ok") =>
        \A i \in 1..(Len(merged_cuts.val) - 1) :
            merged_cuts.val[i][3] # merged_cuts.val[i + 1][3]

\* a valid call returns several segments, one of them joined from raw
\* segments of the same status
AlternationWitness ==
    /\ pc = "returned"
    /\ merged_cuts.kind = "ok"
    /\ ValidCall
    /\ Len(merged_cuts.val) >= 2
    /\ \E k \in 1..Len(merged_cuts.val) :
           \A i \in 1..Len(cuts) : cuts[i] # merged_cuts.val[k]

\* C3 Idempotent merge: the second loop applied to a list it produced
\* returns that same list.
IdempotentMerge ==
    pc = "remerged" => remerged = merged_cuts

\* C4 Zero silence intervals: with an empty argument list and a positive
\* total_duration the result is the single loud segment (0, total_duration).
ZeroSilenceIntervals ==
    (pc # "call" /\ silence_cuts = <<>> /\ duration_ > 0) =>
        merged_cuts = Ok(<< <<0, duration_, FALSE>> >>)

\* C5 Single silence interval: with one interval [s, e), 0 < s < e, and a
\* trailing gap longer than min_length, the result is loud (0, s), quiet
\* (s, e), loud (e, total_duration); no unassigned variable is read.
SingleSilenceInterval ==
    (/\ pc # "call"
     /\ Len(silence_cuts) = 1
     /\ 0 < silence_cuts[1][1]
     /\ silence_cuts[1][1] < silence_cuts[1][2]
     /\ (duration_ - silence_cuts[1][2]) * Sub > min_length) =>
        merged_cuts = Ok(<< <<0, silence_cuts[1][1], FALSE>>,
                            <<silence_cuts[1][1], silence_cuts[1][2], TRUE>>,
                            <<silence_cuts[1][2], duration_, FALSE>> >>)

\* C7 InvalidDuration: a total_duration smaller than the end of the last
\* silence interval makes the call fail; no segment list is returned.
InvalidDuration ==
    (/\ pc # "call"
     /\ WellFormed(silence_cuts)
     /\ Len(silence_cuts) > 0
     /\ duration_ < Last(silence_cuts)[2]) =>
        merged_cuts.kind # "ok"

\* the raw sequence the gap rule prescribes
LeadingGap(sc) ==
    IF Len(sc) > 0 /\ sc[1][1] > 0 THEN << <<0, sc[1][1], FALSE>> >> ELSE << >>

GapAfter(sc, i, ml, dur) ==
    LET from == sc[i][2]
        to == IF i < Len(sc) THEN sc[i + 1][1] ELSE dur
    IN  IF to = from THEN << >> ELSE << <<from, to, (to - from) * Sub <= ml>> >>

RECURSIVE RawFrom(_, _, _, _)
RawFrom(sc, i, ml, dur) ==
    IF i > Len(sc) THEN << >>
    ELSE << <<sc[i][1], sc[i][2], TRUE>> >> \o GapAfter(sc, i, ml, dur)
             \o RawFrom(sc, i + 1, ml, dur)

\* C10 Gap rule: in the raw sequence handed to the second loop, the gap after
\* each silence interval adds nothing when its length is zero, a quiet
\* segment when its length is 1..min_length, a loud segment when it is
\* longer; every element is a complete (start, end, is_quiet) triple.
GapRule ==
    (pc # "call" /\ ValidCall /\ merged_cuts.kind # "UnboundLocalError") =>
        /\ \A k \in 1..Len(cuts) : Len(cuts[k]) = 3
        /\ cuts = LeadingGap(silence_cuts)
                    \o RawFrom(silence_cuts, 1, min_length, duration_)

\* ---------------------------------------------------------------------
\* properties of get_silence_cuts (checked under SpecCuts)
\* ---------------------------------------------------------------------

\* every silence_start of the stream has its silence_end
Paired(ls) == Len(ls) % 2 = 0

\* every detected silence lasts at least min_length (both in 1/Sub frames)
LongEnough(ls, ml) ==
    \A j \in 1..(Len(ls) \div 2) : ls[2 * j].t - ls[2 * j - 1].t >= ml

\* C6 Margin clamp: the margin get_silence_cuts adds to each silence start
\* and subtracts from each silence end is min(margin, floor(min_length / 2)).
MarginClamp ==
    pc = "returned" =>
        LET m == Min(margin, min_length \div (2 * Sub))
        IN  /\ eff_margin = m
            /\ \A i \in 1..Len(lines) :
                 IF lines[i].kind = "start"
                 THEN parsed[(i + 1) \div 2][1] = Max(0, ToFrame(lines[i].t) + m)
                 ELSE parsed[i \div 2][2] = ToFrame(lines[i].t) - m

\* the example of the margin clamp: min_length = 6 frames and margin = 5
\* give 3, applied to a detected silence
MarginClampWitness ==
    /\ pc = "returned"
    /\ min_length = 6 * Sub
    /\ margin = 5
    /\ eff_margin = 3
    /\ Len(lines) >= 2

\* C8 Normalizer output is well formed: for a paired stream whose silences
\* each last at least min_length, every returned interval has
\* 0 <= start <= end and each interval ends no later than the next starts.
NormalizerWellFormed ==
    (/\ pc = "returned"
     /\ ret_cuts.kind = "ok"
     /\ Paired(lines)
     /\ LongEnough(lines, min_length)) =>
        /\ \A i \in 1..Len(ret_cuts.val) :
               /\ Len(ret_cuts.val[i]) = 2
               /\ 0 <= ret_cuts.val[i][1]
               /\ ret_cuts.val[i][1] <= ret_cuts.val[i][2]
        /\ \A i \in 1..(Len(ret_cuts.val) - 1) :
               ret_cuts.val[i][2] <= ret_cuts.val[i + 1][1]

\* C9 Coalesce: when a trimmed interval starts where the previous one ended,
\* the two are joined by replacing the end of the last emitted interval; the
\* call completes and the returned list has no two touching intervals.
Coalesce ==
    (/\ pc = "returned"
     /\ Paired(lines)
     /\ \E i \in 1..(Len(parsed) - 1) : Last(parsed[i]) = parsed[i + 1][1]) =>
        /\ ret_cuts.kind = "ok"
        /\ Len(ret_cuts.val) < Len(parsed)
        /\ \A i \in 1..(Len(ret_cuts.val) - 1) :
               Last(ret_cuts.val[i]) # ret_cuts.val[i + 1][1]

====
